---- MODULE Spec2Model ----
(***************************************************************************)
(* Hotkey Launcher: the hotkey registry (HotkeyManager), the handlers of   *)
(* HotkeyLauncherApp that drive it, and the keyboard hook that fires the   *)
(* registered callbacks.  Source: src/hotkey_launcher.py.                  *)
(*                                                                         *)
(* Strings are sequences of chunks (a chunk stands for a run of            *)
(* characters): " " is whitespace, "http://" a scheme prefix, "a" a key    *)
(* name, ...  str.strip, str.lower and str.startswith act on the chunks.   *)
(*                                                                         *)
(* The keyboard library is an external collaborator.  Its hotkey table is  *)
(* modelled by its contract: one handler per combination, a later          *)
(* add_hotkey for the same combination overwrites the earlier handler,     *)
(* add_hotkey raises on a combination it cannot parse, remove_hotkey       *)
(* raises on a combination that has no handler, and callbacks are invoked  *)
(* one at a time on the hook's own thread.                                 *)
(***************************************************************************)
EXTENDS Integers, Sequences, FiniteSets, TLC

VARIABLES
    entries,          \* HotkeyManager.entries: sequence of HotkeyEntry
    registered,       \* HotkeyManager._registered_combos
    hook,             \* the keyboard library's table: combo -> handler
    disk,             \* the content of hotkeys.json
    writable,         \* whether open(hotkeys.json, "w") succeeds
    selected_index,   \* HotkeyLauncherApp.selected_index (None or 0-based)
    selected_entry,   \* history: the entry at that index when the row was clicked
    rows,             \* number of rows drawn by the last refresh_list
    notes,            \* notifications emitted by the most recent operation
    last,             \* the most recent operation, its arguments and outcome
    pending,          \* key events delivered to the hook, not yet processed
    hookPc,           \* the hook thread: "idle" or "in_callback"
    active,           \* the entry captured by the callback now running
    deleting,         \* on_delete_row's local entry while the control thread is
                      \* between del entries[idx] and register_all, else NoEntry
    listening,        \* HotkeyManager._listening (threading.Event): is it set
    threadPc          \* the listener threads created so far, each one's position;
                      \* HotkeyManager._listener_thread is the last of them

vars == <<entries, registered, hook, disk, writable, selected_index,
          selected_entry, rows, notes, last, pending, hookPc, active,
          deleting, listening, threadPc>>

registryVars == <<entries, registered, hook, disk, selected_index, selected_entry, rows>>
envVars == <<writable>>
hookThreadVars == <<pending, hookPc, active>>
listenerVars == <<listening, threadPc>>
ctrlVars == <<deleting>>

(***************************************************************************)
(* Bounds of the model.                                                    *)
(***************************************************************************)
MaxEntries == 2
MaxPending == 1
MaxThreads == 2

\* selected_index is None
None == -1
NoEntry == [combo |-> <<>>, target |-> <<>>, kind |-> "-"]

(***************************************************************************)
(* Strings.                                                                *)
(***************************************************************************)
SP == " "

RECURSIVE LStrip(_)
LStrip(s) ==
    IF s # <<>> /\ Head(s) = SP THEN LStrip(Tail(s)) ELSE s

RECURSIVE RStrip(_)
RStrip(s) ==
    IF s # <<>> /\ s[Len(s)] = SP THEN RStrip(SubSeq(s, 1, Len(s) - 1)) ELSE s

\* str.strip()
Strip(s) == RStrip(LStrip(s))

LowerChunk(c) ==
    CASE c = "HTTP://" -> "http://"
      [] c = "HTTPS://" -> "https://"
      [] OTHER -> c

\* str.lower()
Lower(s) == [i \in DOMAIN s |-> LowerChunk(s[i])]

\* str.startswith(("http://", "https://"))
StartsWithHttp(s) == s # <<>> /\ Head(s) \in {"http://", "https://"}

(***************************************************************************)
(* HotkeyEntry.                                                            *)
(***************************************************************************)
HotkeyEntry(combo, target, kind) ==
    [combo |-> Strip(combo), target |-> Strip(target), kind |-> kind]

ToDict_NoKind(e) == [combo |-> e.combo, target |-> e.target]

ToDict(e) == [combo |-> e.combo, target |-> e.target, kind |-> e.kind]

\* d["combo"] and d["target"] raise KeyError when the key is absent
FromDictRaises(d) == ~({"combo", "target"} \subseteq DOMAIN d)

FromDict(d) ==
    HotkeyEntry(d.combo, d.target, IF "kind" \in DOMAIN d THEN d.kind ELSE "file")

(***************************************************************************)
(* Notifications: notify(level, message).                                  *)
(***************************************************************************)
Note(level, tag, combo, n) ==
    [level |-> level, tag |-> tag, combo |-> combo, n |-> n]

(***************************************************************************)
(* Persistence: hotkeys.json.  A store is missing, holds text that is not  *)
(* JSON ("corrupt"), or holds a JSON array of objects ("json", rows).      *)
(***************************************************************************)
Missing == [state |-> "missing", rows |-> <<>>]
Corrupt == [state |-> "corrupt", rows |-> <<>>]
Json(rs) == [state |-> "json", rows |-> rs]

\* json.dump([e.to_dict() for e in self.entries], f)
Serialize(es) == Json([i \in DOMAIN es |-> ToDict(es[i])])

\* json.load(f) or a from_dict raises: the except branch of load is taken
LoadRaises(d, readable) ==
    \/ ~readable
    \/ d.state = "corrupt"
    \/ \E i \in DOMAIN d.rows : FromDictRaises(d.rows[i])

\* [HotkeyEntry.from_dict(x) for x in data]
Deserialize(d) == [i \in DOMAIN d.rows |-> FromDict(d.rows[i])]

RECURSIVE ParsedPrefix(_)
ParsedPrefix(rs) ==
    IF rs = <<>> \/ FromDictRaises(Head(rs)) THEN <<>>
    ELSE <<FromDict(Head(rs))>> \o ParsedPrefix(Tail(rs))

LoadEntries_Partial(es, d, readable) ==
    IF d.state = "missing" THEN <<>>
    ELSE IF ~readable \/ d.state = "corrupt" THEN es
    ELSE ParsedPrefix(d.rows)

LoadEntries_KeepOnMissing(es, d, readable) ==
    IF d.state = "missing" \/ LoadRaises(d, readable) THEN es
    ELSE Deserialize(d)

\* HotkeyManager.load: the value of self.entries when load returns
LoadEntries(es, d, readable) ==
    IF d.state = "missing" THEN <<>>
    ELSE IF LoadRaises(d, readable) THEN es
    ELSE Deserialize(d)

\* which branch of load was taken; "read_error" is open() or read() raising
LoadResultOf(d, readable) ==
    IF d.state = "missing" THEN "missing"
    ELSE IF ~readable THEN "read_error"
    ELSE IF LoadRaises(d, readable) THEN "failed"
    ELSE "loaded"

\* HotkeyManager.load: what it notifies
LoadNotes(d, readable) ==
    IF d.state = "missing" THEN <<Note("info", "no_saved", <<>>, 0)>>
    ELSE IF LoadRaises(d, readable) THEN <<Note("error", "load_failed", <<>>, 0)>>
    ELSE <<Note("success", "loaded", <<>>, Len(d.rows))>>

\* HotkeyManager.save: the store when save returns.  On a store that is not
\* writable open(path, "w") raises and the store is left as it was; on a
\* writable one the write succeeds, or fails after the file was truncated
\* and leaves partial text.
SaveOutcomes == {"ok", "open_fails", "write_fails"}

SaveOutcomesFor(w) == IF w THEN {"ok", "write_fails"} ELSE {"open_fails"}

SaveDisk(es, d, outcome) ==
    CASE outcome = "ok" -> Serialize(es)
      [] outcome = "open_fails" -> d
      [] outcome = "write_fails" -> Corrupt

SaveNotes(outcome) ==
    IF outcome = "ok" THEN <<Note("success", "saved", <<>>, 0)>>
    ELSE <<Note("error", "save_failed", <<>>, 0)>>

(***************************************************************************)
(* The keyboard library's hotkey table.                                    *)
(***************************************************************************)
KeyNames == {"a", "b"}

\* keyboard.add_hotkey raises unless every key of the combination is known
HookAccepts(combo) == combo # <<>> /\ \A i \in DOMAIN combo : combo[i] \in KeyNames

Handler(e) == [call |-> "_on_hotkey", entry |-> e]
NoopHandler == [call |-> "noop", entry |-> NoEntry]

\* keyboard.add_hotkey(combo, callback), for a combination it accepts
HookAdd(hk, combo, handler) ==
    [c \in (DOMAIN hk) \cup {combo} |-> IF c = combo THEN handler ELSE hk[c]]

\* keyboard.remove_hotkey(combo); on an unknown combination it raises and
\* the table is left as it was
HookRemove(hk, combo) == [c \in (DOMAIN hk) \ {combo} |-> hk[c]]

EmptyHook == [c \in {} |-> NoopHandler]

(***************************************************************************)
(* HotkeyManager.register_all.                                             *)
(***************************************************************************)
\* for combo in list(self._registered_combos): keyboard.remove_hotkey(combo)
UnregisterAll(hk, reg) == [c \in (DOMAIN hk) \ reg |-> hk[c]]

\* a registration loop whose try encloses the loop: the first failure is
\* notified and ends the loop
RECURSIVE RegisterEntries_AbortOnFailure(_, _)
RegisterEntries_AbortOnFailure(es, acc) ==
    IF es = <<>> THEN acc
    ELSE LET e == Head(es) IN
         IF HookAccepts(e.combo)
         THEN RegisterEntries_AbortOnFailure(Tail(es),
                  [registered |-> acc.registered \cup {e.combo},
                   hook |-> HookAdd(acc.hook, e.combo, Handler(e)),
                   notes |-> acc.notes])
         ELSE [registered |-> acc.registered,
               hook |-> acc.hook,
               notes |-> Append(acc.notes,
                                Note("error", "register_failed", e.combo, 0))]

\* for e in self.entries: add_hotkey / _registered_combos.add / notify error
RECURSIVE RegisterEntries(_, _)
RegisterEntries(es, acc) ==
    IF es = <<>> THEN acc
    ELSE LET e == Head(es) IN
         IF HookAccepts(e.combo)
         THEN RegisterEntries(Tail(es),
                  [registered |-> acc.registered \cup {e.combo},
                   hook |-> HookAdd(acc.hook, e.combo, Handler(e)),
                   notes |-> acc.notes])
         ELSE RegisterEntries(Tail(es),
                  [registered |-> acc.registered,
                   hook |-> acc.hook,
                   notes |-> Append(acc.notes,
                                    Note("error", "register_failed", e.combo, 0))])

\* a resync that unregisters the old combinations, does not clear
\* _registered_combos, and registers only the combinations not yet in it
RegisterAll_SkipActive(es, reg, hk) ==
    LET todo == SelectSeq(es, LAMBDA e : e.combo \notin reg)
        r == RegisterEntries(todo,
                 [registered |-> reg, hook |-> UnregisterAll(hk, reg), notes |-> <<>>])
    IN [registered |-> r.registered, hook |-> r.hook,
        notes |-> Append(r.notes,
                         Note("info", "registered", <<>>, Cardinality(r.registered)))]

\* a resync that forgets to unregister the old combinations
RegisterAll_NoUnregister(es, reg, hk) ==
    LET r == RegisterEntries(es, [registered |-> {}, hook |-> hk, notes |-> <<>>])
    IN [registered |-> r.registered, hook |-> r.hook,
        notes |-> Append(r.notes,
                         Note("info", "registered", <<>>, Cardinality(r.registered)))]

RegisterAll(es, reg, hk) ==
    LET r == RegisterEntries(es,
                 [registered |-> {}, hook |-> UnregisterAll(hk, reg), notes |-> <<>>])
    IN [registered |-> r.registered, hook |-> r.hook,
        notes |-> Append(r.notes,
                         Note("info", "registered", <<>>, Cardinality(r.registered)))]

(***************************************************************************)
(* List indexing (Python, 0-based; entries is 1-based here).               *)
(***************************************************************************)
\* self.manager.entries[idx] raises IndexError
IndexRaises(es, idx) == idx >= Len(es) \/ idx < -Len(es)

Position(es, idx) == IF idx < 0 THEN Len(es) + idx + 1 ELSE idx + 1

\* a removal that drops the last entry whatever the index, entries.pop()
DeleteAt_Last(es, idx) == SubSeq(es, 1, Len(es) - 1)

\* del self.manager.entries[idx], for an index that does not raise
DeleteAt(es, idx) ==
    LET p == Position(es, idx)
    IN SubSeq(es, 1, p - 1) \o SubSeq(es, p + 1, Len(es))

\* a removal by slice, del entries[idx:idx+1], which never raises
TryDelete_Slice(es, idx) ==
    IF IndexRaises(es, idx)
    THEN [raised |-> FALSE, entries |-> es, entry |-> NoEntry]
    ELSE [raised |-> FALSE, entries |-> DeleteAt(es, idx),
          entry |-> es[Position(es, idx)]]

\* entry = self.manager.entries[idx]; del self.manager.entries[idx]
TryDelete(es, idx) ==
    IF IndexRaises(es, idx)
    THEN [raised |-> TRUE, entries |-> es, entry |-> NoEntry]
    ELSE [raised |-> FALSE, entries |-> DeleteAt(es, idx),
          entry |-> es[Position(es, idx)]]

(***************************************************************************)
(* on_add: the pieces.                                                     *)
(***************************************************************************)
DetectKind_CaseSensitive(target, kind_sel) ==
    IF kind_sel = "auto"
    THEN IF StartsWithHttp(target) THEN "url" ELSE "file"
    ELSE kind_sel

\* Kind auto-detection
DetectKind(target, kind_sel) ==
    IF kind_sel = "auto"
    THEN IF StartsWithHttp(Lower(target)) THEN "url" ELSE "file"
    ELSE kind_sel

\* test_id = keyboard.add_hotkey(combo, lambda: None);
\* keyboard.remove_hotkey(test_id), for a combination the hook accepts
DryRun(hk, combo) == HookRemove(HookAdd(hk, combo, NoopHandler), combo)

(***************************************************************************)
(* The inputs.                                                             *)
(***************************************************************************)
Request(combo, target, kind_sel) ==
    [combo |-> combo, target |-> target, kind_sel |-> kind_sel]

\* what the user may type into the Add form
AddRequests ==
    {Request(<<"a">>, <<"http://">>, "auto"),
     Request(<<" ", "a">>, <<"HTTPS://">>, "auto"),
     Request(<<"b">>, <<"f", " ">>, "auto"),
     Request(<<"b">>, <<"f">>, "url"),
     Request(<<"?">>, <<"f">>, "auto"),
     Request(<<" ">>, <<"f">>, "auto"),
     Request(<<"a">>, <<" ">>, "url")}

RowA == [combo |-> <<"a">>, target |-> <<"http://">>, kind |-> "url"]
RowNoKind == [combo |-> <<"b">>, target |-> <<"f">>]
RowOdd == [combo |-> <<" ", "?">>, target |-> <<"f", " ">>, kind |-> "exe"]
RowNoTarget == [combo |-> <<"b">>, kind |-> "url"]

\* what hotkeys.json may hold when the program starts
InitialStores ==
    {Missing, Corrupt,
     Json(<<RowA, RowNoKind>>),
     Json(<<RowOdd, RowA>>),
     Json(<<RowA, RowNoTarget>>)}

(***************************************************************************)
(* The state after HotkeyManager.__init__ (and selected_index = None).     *)
(***************************************************************************)
Op(op, result, save, idx, kind_sel) ==
    [op |-> op, result |-> result, save |-> save, idx |-> idx, kind_sel |-> kind_sel]

Init ==
    /\ entries = <<>>
    /\ registered = {}
    /\ hook = EmptyHook
    /\ disk \in InitialStores
    /\ writable \in BOOLEAN
    /\ selected_index = None
    /\ selected_entry = NoEntry
    /\ rows = 0
    /\ notes = <<>>
    /\ last = Op("__init__", "-", "-", None, "-")
    /\ pending = <<>>
    /\ hookPc = "idle"
    /\ active = NoEntry
    /\ deleting = NoEntry
    /\ listening = FALSE
    /\ threadPc = <<>>

(***************************************************************************)
(* HotkeyManager.load, HotkeyManager.register_all, refresh_list.           *)
(***************************************************************************)
Load(readable) ==
    /\ entries' = LoadEntries(entries, disk, readable)
    /\ notes' = LoadNotes(disk, readable)
    /\ last' = Op("load", LoadResultOf(disk, readable), "-", None, "-")
    /\ UNCHANGED <<registered, hook, disk, selected_index, selected_entry, rows>>
    /\ UNCHANGED hookThreadVars
    /\ UNCHANGED envVars
    /\ UNCHANGED ctrlVars
    /\ UNCHANGED listenerVars

\* the operation ended with register_all
Resynced(op) ==
    op.op = "register_all" \/ op.result \in {"added", "removed", "cleared"}

\* a call of register_all on its own; the result says whether the operation
\* before it ended with register_all too ("repeat")
Resync ==
    LET r == RegisterAll(entries, registered, hook) IN
    /\ registered' = r.registered
    /\ hook' = r.hook
    /\ notes' = r.notes
    /\ last' = Op("register_all", IF Resynced(last) THEN "repeat" ELSE "first",
                  "-", None, "-")
    /\ UNCHANGED <<entries, disk, selected_index, selected_entry, rows>>
    /\ UNCHANGED hookThreadVars
    /\ UNCHANGED envVars
    /\ UNCHANGED ctrlVars
    /\ UNCHANGED listenerVars

\* refresh_list (bound to the search box); the search filter is left out:
\* every entry gets a row
RefreshList ==
    /\ rows' = Len(entries)
    /\ notes' = <<>>
    /\ last' = Op("refresh_list", "-", "-", None, "-")
    /\ UNCHANGED <<entries, registered, hook, disk, selected_index, selected_entry>>
    /\ UNCHANGED hookThreadVars
    /\ UNCHANGED envVars
    /\ UNCHANGED ctrlVars
    /\ UNCHANGED listenerVars

\* _select, bound to a drawn row
SelectRow(i) ==
    /\ i \in 0..(rows - 1)
    /\ selected_index' = i
    /\ selected_entry' = IF i < Len(entries) THEN entries[i + 1] ELSE NoEntry
    /\ notes' = <<>>
    /\ last' = Op("_select", "-", "-", i, "-")
    /\ UNCHANGED <<entries, registered, hook, disk, rows>>
    /\ UNCHANGED hookThreadVars
    /\ UNCHANGED envVars
    /\ UNCHANGED ctrlVars
    /\ UNCHANGED listenerVars

(***************************************************************************)
(* The mutation that every handler ends with: save, register_all,          *)
(* refresh_list.                                                           *)
(***************************************************************************)
SaveAndResync(es, hk, outcome, before, after, op) ==
    LET r == RegisterAll(es, registered, hk) IN
    /\ outcome \in SaveOutcomesFor(writable)
    /\ entries' = es
    /\ disk' = SaveDisk(es, disk, outcome)
    /\ registered' = r.registered
    /\ hook' = r.hook
    /\ rows' = Len(es)
    /\ notes' = before \o SaveNotes(outcome) \o r.notes \o after
    /\ last' = op

Rejected(op, note) ==
    /\ notes' = <<note>>
    /\ last' = op
    /\ UNCHANGED registryVars

(***************************************************************************)
(* HotkeyLauncherApp.on_add.                                               *)
(***************************************************************************)
\* an on_add that appends before it validates the combination with the hook
OnAdd_AppendsFirst(comboIn, targetIn, kind_sel, exists, outcome) ==
    LET combo == Strip(comboIn)
        target == Strip(targetIn)
        kind == DetectKind(target, kind_sel)
        warn == IF kind = "file" /\ ~exists
                THEN <<Note("info", "file_not_found", <<>>, 0)>> ELSE <<>>
    IN
    /\ Len(entries) < MaxEntries
    /\ UNCHANGED hookThreadVars
    /\ UNCHANGED envVars
    /\ UNCHANGED ctrlVars
    /\ UNCHANGED listenerVars
    /\ IF combo = <<>>
       THEN Rejected(Op("on_add", "empty_combo", "-", None, kind_sel),
                     Note("error", "enter_combo", <<>>, 0))
       ELSE IF target = <<>>
       THEN Rejected(Op("on_add", "empty_target", "-", None, kind_sel),
                     Note("error", "enter_target", <<>>, 0))
       ELSE IF ~HookAccepts(combo)
       THEN /\ entries' = Append(entries, HotkeyEntry(combo, target, kind))
            /\ notes' = <<Note("error", "invalid_hotkey", combo, 0)>>
            /\ last' = Op("on_add", "invalid_combo", "-", None, kind_sel)
            /\ UNCHANGED <<registered, hook, disk, selected_index, selected_entry, rows>>
       ELSE /\ SaveAndResync(Append(entries, HotkeyEntry(combo, target, kind)),
                             DryRun(hook, combo), outcome, warn,
                             <<Note("success", "added", combo, 0)>>,
                             Op("on_add", "added", outcome, None, kind_sel))
            /\ UNCHANGED <<selected_index, selected_entry>>

OnAdd(comboIn, targetIn, kind_sel, exists, outcome) ==
    LET combo == Strip(comboIn)
        target == Strip(targetIn)
        kind == DetectKind(target, kind_sel)
        warn == IF kind = "file" /\ ~exists
                THEN <<Note("info", "file_not_found", <<>>, 0)>> ELSE <<>>
    IN
    /\ Len(entries) < MaxEntries
    /\ UNCHANGED hookThreadVars
    /\ UNCHANGED envVars
    /\ UNCHANGED ctrlVars
    /\ UNCHANGED listenerVars
    /\ IF combo = <<>>
       THEN Rejected(Op("on_add", "empty_combo", "-", None, kind_sel),
                     Note("error", "enter_combo", <<>>, 0))
       ELSE IF target = <<>>
       THEN Rejected(Op("on_add", "empty_target", "-", None, kind_sel),
                     Note("error", "enter_target", <<>>, 0))
       ELSE IF ~HookAccepts(combo)
       THEN Rejected(Op("on_add", "invalid_combo", "-", None, kind_sel),
                     Note("error", "invalid_hotkey", combo, 0))
       ELSE /\ SaveAndResync(Append(entries, HotkeyEntry(combo, target, kind)),
                             DryRun(hook, combo), outcome, warn,
                             <<Note("success", "added", combo, 0)>>,
                             Op("on_add", "added", outcome, None, kind_sel))
            /\ UNCHANGED <<selected_index, selected_entry>>

(***************************************************************************)
(* HotkeyLauncherApp.on_remove_selected, on_delete_row, on_clear_all.      *)
(***************************************************************************)
OnRemoveSelected(outcome) ==
    LET idx == selected_index IN
    /\ UNCHANGED hookThreadVars
    /\ UNCHANGED envVars
    /\ UNCHANGED ctrlVars
    /\ UNCHANGED listenerVars
    /\ IF idx = None
       THEN Rejected(Op("on_remove_selected", "no_selection", "-", idx, "-"),
                     Note("error", "no_selection", <<>>, 0))
       ELSE IF TryDelete(entries, idx).raised
       THEN Rejected(Op("on_remove_selected", "index_error", "-", idx, "-"),
                     Note("error", "remove_failed", <<>>, 0))
       ELSE /\ SaveAndResync(TryDelete(entries, idx).entries, hook, outcome, <<>>,
                             <<Note("success", "removed",
                                    TryDelete(entries, idx).entry.combo, 0)>>,
                             Op("on_remove_selected", "removed", outcome, idx, "-"))
            /\ selected_index' = None
            /\ selected_entry' = NoEntry

OnDeleteRow(idx, outcome) ==
    /\ idx \in 0..(rows - 1)
    /\ UNCHANGED hookThreadVars
    /\ UNCHANGED envVars
    /\ UNCHANGED ctrlVars
    /\ UNCHANGED listenerVars
    /\ IF TryDelete(entries, idx).raised
       THEN Rejected(Op("on_delete_row", "index_error", "-", idx, "-"),
                     Note("error", "delete_failed", <<>>, 0))
       ELSE /\ SaveAndResync(TryDelete(entries, idx).entries, hook, outcome, <<>>,
                             <<Note("success", "deleted",
                                    TryDelete(entries, idx).entry.combo, 0)>>,
                             Op("on_delete_row", "removed", outcome, idx, "-"))
            /\ UNCHANGED <<selected_index, selected_entry>>

OnClearAll(outcome) ==
    /\ UNCHANGED hookThreadVars
    /\ UNCHANGED envVars
    /\ UNCHANGED ctrlVars
    /\ UNCHANGED listenerVars
    /\ IF entries = <<>>
       THEN Rejected(Op("on_clear_all", "nothing", "-", None, "-"),
                     Note("info", "nothing_to_clear", <<>>, 0))
       ELSE /\ SaveAndResync(<<>>, hook, outcome, <<>>,
                             <<Note("success", "cleared", <<>>, 0)>>,
                             Op("on_clear_all", "cleared", outcome, None, "-"))
            /\ selected_index' = None
            /\ selected_entry' = NoEntry

(***************************************************************************)
(* on_delete_row in two steps, for the specification in which the hook     *)
(* thread runs beside the control thread: save() does file I/O between     *)
(* del self.manager.entries[idx] and register_all, and the hook thread     *)
(* may run a callback meanwhile.                                           *)
(***************************************************************************)
\* the control thread is not inside a handler
ControlIdle == deleting = NoEntry

\* entry = self.manager.entries[idx]; del self.manager.entries[idx]
\* (or IndexError, and the handler ends with its error notification)
DeleteRowBegin(idx) ==
    /\ ControlIdle
    /\ idx \in 0..(rows - 1)
    /\ UNCHANGED hookThreadVars
    /\ UNCHANGED envVars
    /\ UNCHANGED listenerVars
    /\ IF TryDelete(entries, idx).raised
       THEN /\ Rejected(Op("on_delete_row", "index_error", "-", idx, "-"),
                        Note("error", "delete_failed", <<>>, 0))
            /\ UNCHANGED deleting
       ELSE /\ entries' = TryDelete(entries, idx).entries
            /\ deleting' = TryDelete(entries, idx).entry
            /\ notes' = <<>>
            /\ last' = Op("on_delete_row", "deleting", "-", idx, "-")
            /\ UNCHANGED <<registered, hook, disk, selected_index, selected_entry, rows>>

\* save; register_all; refresh_list; show_status("success", "Deleted ...")
DeleteRowFinish(outcome) ==
    /\ ~ControlIdle
    /\ UNCHANGED hookThreadVars
    /\ UNCHANGED envVars
    /\ UNCHANGED listenerVars
    /\ SaveAndResync(entries, hook, outcome, <<>>,
                     <<Note("success", "deleted", deleting.combo, 0)>>,
                     Op("on_delete_row", "removed", outcome, None, "-"))
    /\ deleting' = NoEntry
    /\ UNCHANGED <<selected_index, selected_entry>>

(***************************************************************************)
(* The hook thread.  The keyboard library takes the key events one at a    *)
(* time and calls the callback registered for the combination; the         *)
(* callback is lambda entry=e: self._on_hotkey(entry), which calls         *)
(* open_target and notifies before it returns.                             *)
(***************************************************************************)
KeyCombos == {<<"a">>, <<"b">>}

\* the user presses a combination: the event waits for the hook thread
KeyPress(c) ==
    /\ Len(pending) < MaxPending
    /\ pending' = Append(pending, c)
    /\ UNCHANGED <<hookPc, active, notes, last>>
    /\ UNCHANGED registryVars
    /\ UNCHANGED envVars
    /\ UNCHANGED ctrlVars
    /\ UNCHANGED listenerVars

\* the hook thread takes the next event; a combination without a handler
\* is dropped, otherwise the handler's callback starts with its own entry
HookDispatch ==
    /\ hookPc = "idle"
    /\ pending # <<>>
    /\ pending' = Tail(pending)
    /\ IF Head(pending) \in DOMAIN hook /\ hook[Head(pending)].call = "_on_hotkey"
       THEN /\ hookPc' = "in_callback"
            /\ active' = hook[Head(pending)].entry
       ELSE UNCHANGED <<hookPc, active>>
    /\ UNCHANGED <<notes, last>>
    /\ UNCHANGED registryVars
    /\ UNCHANGED envVars
    /\ UNCHANGED ctrlVars
    /\ UNCHANGED listenerVars

\* open_target returns (ok, msg); _on_hotkey notifies and the callback ends
OpenReturns(ok) ==
    /\ hookPc = "in_callback"
    /\ notes' = <<Note(IF ok THEN "success" ELSE "error",
                       IF ok THEN "opened" ELSE "open_failed", active.combo, 0)>>
    /\ last' = Op("_on_hotkey", IF ok THEN "opened" ELSE "open_failed", "-", None, "-")
    /\ hookPc' = "idle"
    /\ active' = NoEntry
    /\ UNCHANGED pending
    /\ UNCHANGED registryVars
    /\ UNCHANGED envVars
    /\ UNCHANGED ctrlVars
    /\ UNCHANGED listenerVars

(***************************************************************************)
(* The listener: start_listener, stop_listener and the threads that run    *)
(* _listen_loop.  A thread is at "check" (about to evaluate                *)
(* self._listening.is_set()), "waiting" (inside keyboard.wait()),          *)
(* "exiting" (it left the loop and has not ended yet) or "dead".           *)
(***************************************************************************)
\* Thread.is_alive()
IsAlive(t) == threadPc[t] # "dead"

\* self._listener_thread and self._listener_thread.is_alive()
ListenerAlive == threadPc # <<>> /\ IsAlive(Len(threadPc))

\* a start_listener without the is_alive test
StartListener_NoGuard ==
    /\ Len(threadPc) < MaxThreads
    /\ listening' = TRUE
    /\ threadPc' = Append(threadPc, "check")
    /\ last' = Op("start_listener", IF ListenerAlive THEN "noop" ELSE "started",
                  "-", None, "-")
    /\ notes' = <<>>
    /\ UNCHANGED registryVars
    /\ UNCHANGED hookThreadVars
    /\ UNCHANGED envVars
    /\ UNCHANGED ctrlVars

StartListener ==
    /\ ListenerAlive \/ Len(threadPc) < MaxThreads
    /\ IF ListenerAlive
       THEN /\ last' = Op("start_listener", "noop", "-", None, "-")
            /\ UNCHANGED listenerVars
       ELSE /\ listening' = TRUE
            /\ threadPc' = Append(threadPc, "check")
            /\ last' = Op("start_listener", "started", "-", None, "-")
    /\ notes' = <<>>
    /\ UNCHANGED registryVars
    /\ UNCHANGED hookThreadVars
    /\ UNCHANGED envVars
    /\ UNCHANGED ctrlVars

StopListener ==
    /\ listening' = FALSE
    /\ last' = Op("stop_listener", "-", "-", None, "-")
    /\ notes' = <<>>
    /\ UNCHANGED threadPc
    /\ UNCHANGED registryVars
    /\ UNCHANGED hookThreadVars
    /\ UNCHANGED envVars
    /\ UNCHANGED ctrlVars

ThreadStep(t, pc) ==
    /\ threadPc' = [threadPc EXCEPT ![t] = pc]
    /\ UNCHANGED listening
    /\ UNCHANGED registryVars
    /\ UNCHANGED hookThreadVars
    /\ UNCHANGED envVars
    /\ UNCHANGED ctrlVars

\* a loop that never looks at the flag: while True: keyboard.wait()
LoopCheck_IgnoresFlag(t) ==
    /\ t \in DOMAIN threadPc
    /\ threadPc[t] = "check"
    /\ ThreadStep(t, "waiting")
    /\ UNCHANGED <<notes, last>>

\* while self._listening.is_set():
LoopCheck(t) ==
    /\ t \in DOMAIN threadPc
    /\ threadPc[t] = "check"
    /\ ThreadStep(t, IF listening THEN "waiting" ELSE "exiting")
    /\ UNCHANGED <<notes, last>>

\* keyboard.wait() returns
WaitReturns(t) ==
    /\ t \in DOMAIN threadPc
    /\ threadPc[t] = "waiting"
    /\ ThreadStep(t, "check")
    /\ UNCHANGED <<notes, last>>

\* keyboard.wait() raises: the except branch notifies and the loop is left
WaitRaises(t) ==
    /\ t \in DOMAIN threadPc
    /\ threadPc[t] = "waiting"
    /\ ThreadStep(t, "exiting")
    /\ notes' = <<Note("error", "listener_stopped", <<>>, 0)>>
    /\ last' = Op("_listen_loop", "raised", "-", None, "-")

\* _listen_loop returns and the thread ends
ThreadExit(t) ==
    /\ t \in DOMAIN threadPc
    /\ threadPc[t] = "exiting"
    /\ ThreadStep(t, "dead")
    /\ UNCHANGED <<notes, last>>

(***************************************************************************)
(* The control thread's operations.                                        *)
(***************************************************************************)
Next ==
    \/ \E readable \in BOOLEAN : Load(readable)
    \/ Resync
    \/ RefreshList
    \/ \E i \in 0..MaxEntries : SelectRow(i)
    \/ \E r \in AddRequests, x \in BOOLEAN, o \in SaveOutcomes :
          OnAdd(r.combo, r.target, r.kind_sel, x, o)
    \/ \E o \in SaveOutcomes : OnRemoveSelected(o)
    \/ \E i \in 0..MaxEntries, o \in SaveOutcomes : OnDeleteRow(i, o)
    \/ \E o \in SaveOutcomes : OnClearAll(o)

Spec == Init /\ [][Next]_vars

(***************************************************************************)
(* The control thread together with the hook thread.                       *)
(***************************************************************************)
DispatchRequests ==
    {Request(<<"a">>, <<"http://">>, "auto"), Request(<<"b">>, <<"f">>, "url")}

NextDispatch ==
    \/ ControlIdle /\ \E readable \in BOOLEAN : Load(readable)
    \/ ControlIdle /\ Resync
    \/ ControlIdle /\ RefreshList
    \/ ControlIdle /\ \E r \in DispatchRequests, o \in SaveOutcomes :
          OnAdd(r.combo, r.target, r.kind_sel, TRUE, o)
    \/ \E i \in 0..MaxEntries : DeleteRowBegin(i)
    \/ \E o \in SaveOutcomes : DeleteRowFinish(o)
    \/ \E c \in KeyCombos : KeyPress(c)
    \/ HookDispatch
    \/ \E ok \in BOOLEAN : OpenReturns(ok)

SpecDispatch == Init /\ [][NextDispatch]_vars

(***************************************************************************)
(* The window after start-up: only the handlers bound to its widgets run   *)
(* (the buttons, the rows, the search box).                                *)
(***************************************************************************)
NextWindow ==
    \/ RefreshList
    \/ \E i \in 0..MaxEntries : SelectRow(i)
    \/ \E r \in AddRequests, x \in BOOLEAN, o \in SaveOutcomes :
          OnAdd(r.combo, r.target, r.kind_sel, x, o)
    \/ \E o \in SaveOutcomes : OnRemoveSelected(o)
    \/ \E i \in 0..MaxEntries, o \in SaveOutcomes : OnDeleteRow(i, o)
    \/ \E o \in SaveOutcomes : OnClearAll(o)

SpecWindow == Init /\ [][NextWindow]_vars

(***************************************************************************)
(* The listener's calls on the control thread together with the listener   *)
(* threads.  In the fair specification every thread goes on running and    *)
(* every keyboard.wait() call ends.                                        *)
(***************************************************************************)
Threads == 1..MaxThreads

NextListener ==
    \/ StartListener
    \/ StopListener
    \/ \E t \in Threads : LoopCheck(t)
    \/ \E t \in Threads : WaitReturns(t)
    \/ \E t \in Threads : WaitRaises(t)
    \/ \E t \in Threads : ThreadExit(t)

SpecListener == Init /\ [][NextListener]_vars

SpecListenerFair ==
    /\ SpecListener
    /\ \A t \in Threads :
          /\ WF_vars(LoopCheck(t))
          /\ WF_vars(WaitReturns(t) \/ WaitRaises(t))
          /\ WF_vars(ThreadExit(t))

(***************************************************************************)
(* Helpers of the properties.                                              *)
(***************************************************************************)
ComboSet(es) == {es[i].combo : i \in DOMAIN es}
Levels(ns) == [i \in DOMAIN ns |-> ns[i].level]
LastEntry == entries[Len(entries)]
Added == last.op = "on_add" /\ last.result = "added"
Persisted(e) ==
    disk.state = "json" /\ \E i \in DOMAIN disk.rows : disk.rows[i] = ToDict(e)
\* the scheme of the target is http or https (schemes compare without case)
HttpScheme(target) ==
    target # <<>> /\ Head(target) \in {"http://", "https://", "HTTP://", "HTTPS://"}
\* a row of the store lacks a field that from_dict requires
RowIncomplete(d) == "combo" \notin DOMAIN d \/ "target" \notin DOMAIN d

(***************************************************************************)
(* C1.  After a successful Add of a valid entry E, combo(E) is in the      *)
(* active registration set and in the hook table, and E is in the          *)
(* persisted store, also when the store write fails.                       *)
(***************************************************************************)
C1_AddedIsRegisteredAndPersisted ==
    Added =>
        /\ LastEntry.combo \in registered
        /\ LastEntry.combo \in DOMAIN hook
        /\ Persisted(LastEntry)

(***************************************************************************)
(* C2.  When register_all returns, the combinations with a live handler    *)
(* are exactly the combinations of the entry list it began with.           *)
(***************************************************************************)
C2_ResyncMatchesEntryList ==
    Resynced(last) =>
        /\ DOMAIN hook = ComboSet(entries)
        /\ registered = ComboSet(entries)

\* C2 as amended: when register_all returns, the combinations with a live
\* handler are exactly the combinations of the entry list that the hook
\* accepts, each handled on behalf of an entry of the list with that
\* combination; no combination absent from the list keeps a handler.
C2_ResyncMatchesAcceptedCombos ==
    Resynced(last) =>
        /\ DOMAIN hook = {c \in ComboSet(entries) : HookAccepts(c)}
        /\ registered = DOMAIN hook
        /\ \A c \in DOMAIN hook :
              \E i \in DOMAIN entries : hook[c] = Handler(entries[i])

C2_Witness ==
    /\ last.op = "register_all"
    /\ \E i \in DOMAIN entries : ~HookAccepts(entries[i].combo)
    /\ \E i \in DOMAIN entries : entries[i].combo \in DOMAIN hook

(***************************************************************************)
(* C3.  No two entries of the list, and no two persisted rows, have the    *)
(* same combo.                                                             *)
(***************************************************************************)
C3_NoDuplicateCombos ==
    /\ \A i, j \in DOMAIN entries : entries[i].combo = entries[j].combo => i = j
    /\ \A i, j \in DOMAIN disk.rows :
          ("combo" \in DOMAIN disk.rows[i] /\ "combo" \in DOMAIN disk.rows[j]
           /\ Strip(disk.rows[i].combo) = Strip(disk.rows[j].combo)) => i = j

(***************************************************************************)
(* C4.  While the launch call of one fired combo is in progress, a         *)
(* different registered combo that fires is dispatched without waiting     *)
(* for the first to finish.                                                *)
(***************************************************************************)
C4_SecondComboDispatchedDuringLaunch ==
    (/\ hookPc = "in_callback"
     /\ pending # <<>>
     /\ Head(pending) \in DOMAIN hook
     /\ Head(pending) # active.combo) => ENABLED HookDispatch

(***************************************************************************)
(* C5.  A removal (on_delete_row, on_remove_selected) by an index that is  *)
(* not in the entry list reports an error and leaves the entry list, the   *)
(* registration set, the hook table and the store as they were.            *)
(***************************************************************************)
C5_MissingIndexLeavesStateIntact ==
    [][(/\ last'.op \in {"on_delete_row", "on_remove_selected"}
        /\ last'.idx # None
        /\ last'.idx >= Len(entries))
       => (/\ last'.result = "index_error"
           /\ Levels(notes') = <<"error">>
           /\ entries' = entries
           /\ registered' = registered
           /\ hook' = hook
           /\ disk' = disk)]_vars

C5_Witness ==
    /\ last.op = "on_remove_selected"
    /\ last.result = "index_error"
    /\ entries # <<>>
    /\ registered # {}

(***************************************************************************)
(* C6.  A load of a store that exists but cannot be read, is not JSON, or   *)
(* has an element without a required field, notifies an error and leaves   *)
(* the entry list as it was; every load leaves either the list as it was   *)
(* or the whole list of the store (or the empty list when the store is     *)
(* missing), never a part of it.                                           *)
(***************************************************************************)
C6_FailedLoadKeepsList ==
    [][last'.op = "load" =>
        /\ (\/ disk.state = "corrupt"
            \/ \E i \in DOMAIN disk.rows : RowIncomplete(disk.rows[i])
            \/ last'.result = "read_error")
           => (entries' = entries /\ Levels(notes') = <<"error">>)
        /\ \/ entries' = entries
           \/ disk.state = "missing" /\ entries' = <<>>
           \/ /\ disk.state = "json"
              /\ Len(entries') = Len(disk.rows)
              /\ \A i \in DOMAIN entries' :
                    entries'[i].combo = Strip(disk.rows[i].combo)]_vars

C6_Witness ==
    /\ last.op = "load"
    /\ last.result = "failed"
    /\ entries # <<>>
    /\ \/ disk.state = "corrupt"
       \/ \E i \in DOMAIN disk.rows : RowIncomplete(disk.rows[i])

(***************************************************************************)
(* C7.  A load when no store exists leaves the entry list empty and        *)
(* notifies exactly once, at level info, whatever the list held before.    *)
(***************************************************************************)
C7_MissingStoreLoadsEmpty ==
    [][(last'.op = "load" /\ disk.state = "missing")
       => (entries' = <<>> /\ Levels(notes') = <<"info">>)]_vars

\* the handlers still in the hook table show that the list held entries
\* when the load began
C7_Witness ==
    /\ last.op = "load"
    /\ last.result = "missing"
    /\ entries = <<>>
    /\ DOMAIN hook # {}

(***************************************************************************)
(* C8.  register_all called again right after an operation that ended      *)
(* with register_all leaves the registration set and the hook table as     *)
(* the first call left them, and completes with its summary notification.  *)
(***************************************************************************)
C8_ResyncIdempotent ==
    [][(Resynced(last) /\ last'.op = "register_all")
       => (/\ registered' = registered
           /\ hook' = hook
           /\ notes'[Len(notes')] =
                 Note("info", "registered", <<>>, Cardinality(registered)))]_vars

C8_Witness ==
    /\ last.op = "register_all"
    /\ last.result = "repeat"
    /\ Len(entries) = 2
    /\ registered # {}

(***************************************************************************)
(* C9.  After a save that succeeded, loading the store gives the entry     *)
(* list that was saved: same length, same order, same combo, target and    *)
(* kind.                                                                   *)
(***************************************************************************)
C9_SaveLoadRoundTrip ==
    last.save = "ok" =>
        /\ ~LoadRaises(disk, TRUE)
        /\ LoadEntries(<<>>, disk, TRUE) = entries

C9_Witness ==
    /\ last.save = "ok"
    /\ Len(entries) = 2
    /\ entries[1].kind # entries[2].kind
    /\ entries[1].combo # entries[2].combo

(***************************************************************************)
(* C10.  The entry stored by Add has kind url exactly when the target's    *)
(* scheme is http or https if the kind was left to auto-detection, and     *)
(* the kind that was given if url or file was given.                       *)
(***************************************************************************)
C10_KindResolution ==
    Added =>
        /\ last.kind_sel = "auto" =>
              (LastEntry.kind = "url" <=> HttpScheme(LastEntry.target))
        /\ last.kind_sel = "auto" => LastEntry.kind \in {"url", "file"}
        /\ last.kind_sel # "auto" => LastEntry.kind = last.kind_sel

C10_Witness ==
    /\ Added
    /\ last.kind_sel = "auto"
    /\ LastEntry.kind = "url"
    /\ Head(LastEntry.target) = "HTTPS://"

\* the notifications of level success or error among ns
Terminal(ns) == SelectSeq(ns, LAMBDA n : n.level \in {"success", "error"})

(***************************************************************************)
(* C11.  An operation that changed the state (an Add, a Remove or a Clear  *)
(* that went through, and every Load) has emitted exactly one              *)
(* notification of level success or error.                                 *)
(***************************************************************************)
C11_ExactlyOneTerminalNotification ==
    (last.op = "load" \/ last.result \in {"added", "removed", "cleared"})
        => Len(Terminal(notes)) = 1

\* on_add returned before it appended
AddRejected(op) ==
    op.op = "on_add" /\ op.result \in {"empty_combo", "empty_target", "invalid_combo"}

(***************************************************************************)
(* C12.  An Add that fails validation (combo or target empty after         *)
(* trimming, or combo rejected by the hook in the temporary registration)  *)
(* notifies one error and leaves the entry list, the registration set,     *)
(* the hook table and the store as they were; no Add, rejected or not,     *)
(* leaves the handler of the temporary registration in the hook table.     *)
(***************************************************************************)
C12_RejectedAddLeavesStateIntact ==
    [][/\ AddRejected(last')
          => (/\ Levels(notes') = <<"error">>
              /\ entries' = entries
              /\ registered' = registered
              /\ hook' = hook
              /\ disk' = disk)
       /\ last'.op = "on_add"
          => \A c \in DOMAIN hook' : hook'[c] # NoopHandler]_vars

C12_Witness ==
    /\ last.op = "on_add"
    /\ last.result = "invalid_combo"
    /\ entries # <<>>
    /\ registered # {}
    /\ disk.state = "json"

FailureNotes(ns) == SelectSeq(ns, LAMBDA n : n.tag = "register_failed")
\* the entries whose combination the hook does not accept
RejectedEntries(es) == SelectSeq(es, LAMBDA e : ~HookAccepts(e.combo))

(***************************************************************************)
(* C17.  When register_all returns, every entry whose combination the      *)
(* hook rejected has its own error notification naming that combination,   *)
(* in the order of the list, and its combination is not in the             *)
(* registration set; every entry whose combination the hook accepts is     *)
(* registered and has a handler; the one summary notification carries the  *)
(* number of combinations in the registration set.                         *)
(***************************************************************************)
C17_PartialResyncReported ==
    Resynced(last) =>
        /\ FailureNotes(notes) =
              [i \in DOMAIN RejectedEntries(entries) |->
                  Note("error", "register_failed", RejectedEntries(entries)[i].combo, 0)]
        /\ \A i \in DOMAIN entries :
              IF HookAccepts(entries[i].combo)
              THEN entries[i].combo \in registered /\ entries[i].combo \in DOMAIN hook
              ELSE entries[i].combo \notin registered
        /\ SelectSeq(notes, LAMBDA n : n.tag = "registered") =
              <<Note("info", "registered", <<>>, Cardinality(registered))>>

\* the first entry failed to register and the second is registered
C17_Witness ==
    /\ last.op = "register_all"
    /\ Len(entries) = 2
    /\ ~HookAccepts(entries[1].combo)
    /\ entries[2].combo \in registered
    /\ Len(FailureNotes(notes)) = 1

\* e is a well-formed entry
WellFormed(e) ==
    /\ Strip(e.combo) # <<>>
    /\ Strip(e.target) # <<>>
    /\ e.kind \in {"url", "file"}

(***************************************************************************)
(* C18.  Every entry of the entry list has a combo and a target that are   *)
(* not empty after trimming and a kind that is url or file, whether Add    *)
(* made it or Load read it.                                                *)
(***************************************************************************)
C18_EntriesWellFormed ==
    \A i \in DOMAIN entries : WellFormed(entries[i])

(***************************************************************************)
(* C19.  When on_remove_selected removes an entry, the entry it removes    *)
(* is the entry of the row that the user clicked last.                     *)
(***************************************************************************)
C19_RemoveSelectedRemovesSelection ==
    [][(last'.op = "on_remove_selected" /\ last'.result = "removed")
          => entries[selected_index + 1] = selected_entry]_vars

\* the listener threads that are alive
AliveThreads == {t \in DOMAIN threadPc : IsAlive(t)}

(***************************************************************************)
(* C13.  While the listener thread is alive no step, a start_listener      *)
(* call included, creates a thread or sets the flag; and after every step  *)
(* at most one listener thread is alive.                                   *)
(***************************************************************************)
C13_StartIdempotent ==
    [][/\ ListenerAlive
          => (/\ Len(threadPc') = Len(threadPc)
              /\ listening' => listening)
       /\ Cardinality({t \in DOMAIN threadPc' : threadPc'[t] # "dead"}) <= 1]_vars

\* start_listener was called while the second thread was waiting
C13_Witness ==
    /\ last.op = "start_listener"
    /\ last.result = "noop"
    /\ Len(threadPc) = 2
    /\ threadPc[2] = "waiting"
    /\ listening

(***************************************************************************)
(* C14.  Once the flag is cleared, a listener thread that is alive starts  *)
(* no further keyboard.wait(): when its wait in flight ends it goes to     *)
(* the test of the flag and from there out of the loop, and the flag is    *)
(* not set again while it is alive.  If every keyboard.wait() ends and the *)
(* thread is scheduled, a cleared flag leads to no listener thread alive.  *)
(***************************************************************************)
C14_StopEndsLoop ==
    /\ [][\A t \in DOMAIN threadPc :
            (~listening /\ IsAlive(t))
               => (/\ ~listening'
                   /\ threadPc'[t] = "waiting" => threadPc[t] = "waiting"
                   /\ threadPc[t] = "check" => threadPc'[t] \in {"check", "exiting"})]_vars
    /\ (~listening /\ AliveThreads # {}) ~> (AliveThreads = {})

\* stop_listener was called and the thread has left the loop and ended
C14_Witness ==
    /\ last.op = "stop_listener"
    /\ ~listening
    /\ threadPc = <<"dead">>

\* the listener threads that are in the loop: testing the flag or waiting
LoopingThreads == {t \in DOMAIN threadPc : threadPc[t] \in {"check", "waiting"}}

(***************************************************************************)
(* C20.  When the last call on the listener was start_listener, the flag   *)
(* is set and a listener thread is in its loop (unless keyboard.wait()     *)
(* raised since).                                                          *)
(***************************************************************************)
C20_StartLeavesListenerRunning ==
    last.op = "start_listener" => (listening /\ LoopingThreads # {})

(***************************************************************************)
(* C15.  When a hotkey fires while a removal is running on the control     *)
(* thread, a callback starts (and with it the call of open_target) only    *)
(* for an entry that is in the entry list at that moment; otherwise the    *)
(* event is dropped.                                                       *)
(***************************************************************************)
C15_FireAfterRemovalDropped ==
    [][(/\ ~ControlIdle
        /\ hookPc = "idle"
        /\ hookPc' = "in_callback")
       => \E i \in DOMAIN entries : entries[i] = active']_vars

====
